---- MODULE Spec2Model ----
(***************************************************************************)
(* Savings-Web backend (src/app.py): the settings row, the expense ledger  *)
(* and the week arithmetic, as a state machine over the SQLite tables.     *)
(*                                                                         *)
(* A datetime.date is its proleptic Gregorian ordinal (date.toordinal()).  *)
(* A Python str / SQLite TEXT holding a date is a sequence of one-character*)
(* strings, so that strptime, strftime and SQLite's bytewise comparison    *)
(* are computed and not assumed.                                           *)
(***************************************************************************)
EXTENDS Integers, Sequences, FiniteSets, TLC

VARIABLES expenses, lastrowid, settings, today, req, resp, calls

vars == <<expenses, lastrowid, settings, today, req, resp, calls>>

\* Python's None / SQLite's NULL, where the model has to store or return one.
None == "None"

-----------------------------------------------------------------------------
(* Characters and strings                                                  *)

Digits == <<"0", "1", "2", "3", "4", "5", "6", "7", "8", "9">>

IsDigit(c) == \E i \in 1..10 : Digits[i] = c

DigitVal(c) == (CHOOSE i \in 1..10 : Digits[i] = c) - 1

\* The byte of a character of a stored date (ASCII: '-' is 45, '0' is 48).
Byte(c) == IF c = "-" THEN 45 ELSE 48 + DigitVal(c)

\* int() of a run of decimal digits.
RECURSIVE Number(_)
Number(s) ==
    IF s = <<>> THEN 0
    ELSE 10 * Number(SubSeq(s, 1, Len(s) - 1)) + DigitVal(s[Len(s)])

AllDigits(s) == \A i \in 1..Len(s) : IsDigit(s[i])

\* SQLite's comparison of two TEXT values under the BINARY collation:
\* memcmp over the common prefix, then the shorter one first.
RECURSIVE TextLe(_, _)
TextLe(a, b) ==
    IF a = <<>> THEN TRUE
    ELSE IF b = <<>> THEN FALSE
    ELSE IF Byte(Head(a)) < Byte(Head(b)) THEN TRUE
    ELSE IF Byte(Head(a)) > Byte(Head(b)) THEN FALSE
    ELSE TextLe(Tail(a), Tail(b))

-----------------------------------------------------------------------------
(* datetime.date, as CPython computes it                                   *)

IsLeap(y) == y % 4 = 0 /\ (y % 100 # 0 \/ y % 400 = 0)

DaysInMonth(y, m) ==
    IF m = 2 THEN (IF IsLeap(y) THEN 29 ELSE 28)
    ELSE IF m \in {4, 6, 9, 11} THEN 30 ELSE 31

DaysBeforeYear(y) ==
    (y - 1) * 365 + (y - 1) \div 4 - (y - 1) \div 100 + (y - 1) \div 400

RECURSIVE DaysBeforeMonth(_, _)
DaysBeforeMonth(y, m) ==
    IF m = 1 THEN 0 ELSE DaysBeforeMonth(y, m - 1) + DaysInMonth(y, m - 1)

\* date(y, m, d).toordinal()
ToOrdinal(y, m, d) == DaysBeforeYear(y) + DaysBeforeMonth(y, m) + d

\* date.fromordinal(n), as <<year, month, day>>
FromOrdinal(n) ==
    LET n0   == n - 1
        n400 == n0 \div 146097
        r400 == n0 % 146097
        n100 == r400 \div 36524
        r100 == r400 % 36524
        n4   == r100 \div 1461
        r4   == r100 % 1461
        n1   == r4 \div 365
        r1   == r4 % 365
        y    == n400 * 400 + 1 + n100 * 100 + n4 * 4 + n1
    IN  IF n1 = 4 \/ n100 = 4 THEN <<y - 1, 12, 31>>
        ELSE LET m == CHOOSE k \in 1..12 :
                          /\ DaysBeforeMonth(y, k) <= r1
                          /\ r1 < DaysBeforeMonth(y, k) + DaysInMonth(y, k)
             IN  <<y, m, r1 - DaysBeforeMonth(y, m) + 1>>

\* date.weekday(): Monday = 0 ... Sunday = 6
Weekday(n) == (n + 6) % 7

\* date + timedelta(days = k)
PlusDays(n, k) == n + k

-----------------------------------------------------------------------------
(* Date helper functions                                                   *)

\* The None that parse_date returns; no date has ordinal 0 (MINYEAR is 1).
NoDate == 0

Pad2(n) == <<Digits[(n \div 10) + 1], Digits[(n % 10) + 1]>>

Pad4(n) == Pad2(n \div 100) \o Pad2(n % 100)

\* date.strftime('%Y-%m-%d') for a four-digit year
strftime(d) ==
    LET ymd == FromOrdinal(d)
    IN  Pad4(ymd[1]) \o <<"-">> \o Pad2(ymd[2]) \o <<"-">> \o Pad2(ymd[3])

\* datetime.strptime(s, '%Y-%m-%d').date(), NoDate where it raises ValueError.
\* %Y takes exactly four digits, %m and %d one or two; the whole string has to
\* match, and date(y, m, d) has to exist.
strptime(s) ==
    LET dashes == {i \in 1..Len(s) : s[i] = "-"}
        p      == CHOOSE i \in dashes : i > 5
        Y      == SubSeq(s, 1, 4)
        m      == SubSeq(s, 6, p - 1)
        d      == SubSeq(s, p + 1, Len(s))
    IN  IF /\ dashes \in {{5, 7}, {5, 8}}
           /\ AllDigits(Y) /\ AllDigits(m) /\ AllDigits(d)
           /\ Len(d) \in {1, 2}
           /\ Number(Y) >= 1
           /\ Number(m) \in 1..12
           /\ Number(d) \in 1..DaysInMonth(Number(Y), Number(m))
        THEN ToOrdinal(Number(Y), Number(m), Number(d))
        ELSE NoDate

parse_date(date_string) ==
    IF date_string = <<>> THEN NoDate ELSE strptime(date_string)

format_date(date_obj) ==
    IF date_obj = NoDate THEN None ELSE strftime(date_obj)

\* The same with the week starting on Monday: weekday() taken as the days
\* since the start of the week.
get_week_range_monday(date_obj) ==
    LET d                 == IF date_obj = NoDate THEN today ELSE date_obj
        days_since_monday == Weekday(d)
        start_date        == PlusDays(d, 0 - days_since_monday)
    IN  <<start_date, PlusDays(start_date, 6)>>

\* <<start_date, end_date>>; date_obj = NoDate is the call without argument.
get_week_range(date_obj) ==
    LET d                 == IF date_obj = NoDate THEN today ELSE date_obj
        days_since_sunday == (Weekday(d) + 1) % 7
        start_date        == PlusDays(d, 0 - days_since_sunday)
        end_date          == PlusDays(start_date, 6)
    IN  <<start_date, end_date>>

\* The same without the shift to Sunday = 0: weekday() as it comes.
get_day_from_date_monday0(date_obj) ==
    IF date_obj = NoDate THEN 0 ELSE Weekday(date_obj)

\* On a date object (the only way the handlers call it).
get_day_from_date(date_obj) ==
    IF date_obj = NoDate THEN 0 ELSE (Weekday(date_obj) + 1) % 7

get_date_from_day(day_number, reference_date) ==
    PlusDays(get_week_range(reference_date)[1], day_number)

is_expense_in_week(expense_date, start_date, end_date) ==
    LET d == parse_date(expense_date)
    IN  IF d = NoDate THEN FALSE ELSE start_date <= d /\ d <= end_date

-----------------------------------------------------------------------------
(* request.json and request.args                                           *)
(* A JSON object is [keys, val]: keys are the members it has, val maps the *)
(* members whose value is not null to that value.                          *)

\* The members the handlers read.
ExpenseFields == {"desc", "amount", "who", "day", "category", "date"}

SettingsFields == {"daily_max", "house_goal", "current_savings"}

Has(data, k) == k \in data.keys

IsNull(data, k) == k \notin DOMAIN data.val

\* `if data.get(k):` on a text member: present, not null and not empty
Truthy(data, k) == Has(data, k) /\ ~IsNull(data, k) /\ data.val[k] # <<>>

\* float(x) and int(x) of a JSON number (the model's numbers are whole)
float(x) == x

int(x) == x

Obj(K, r) == [keys |-> K, val |-> [k \in K |-> r[k]]]

\* Every object with members among F, valued as in one of the records rs.
Objects(rs, F) == {Obj(K, r) : r \in rs, K \in SUBSET F}

\* The body {}.
NoData == [keys |-> {}, val |-> <<>>]

\* The object o with member k set to null.
WithNull(o, k) ==
    [keys |-> o.keys \cup {k}, val |-> [j \in DOMAIN o.val \ {k} |-> o.val[j]]]

-----------------------------------------------------------------------------
(* Bounds and the requests the model sends                                 *)

\* At most MaxId expenses are ever inserted.
MaxId == 2

\* The clock passes midnight at most MaxTicks times.
MaxTicks == 1

\* The server starts on Saturday 2024-03-09; Sunday 2024-03-10 begins the
\* next week.
FirstDay == ToOrdinal(2024, 3, 9)

Today == FirstDay..(FirstDay + MaxTicks)

Sunday0310 == <<"2", "0", "2", "4", "-", "0", "3", "-", "1", "0">>

Tuesday35 == <<"2", "0", "2", "4", "-", "3", "-", "5">>

February30 == <<"2", "0", "2", "4", "-", "0", "2", "-", "3", "0">>

Ids == 1..MaxId

\* Spec: the bodies of POST /api/expenses differ in day, category and date;
\* one lacks a required member, one has it null, one asks for another day.
CreateValues ==
    [desc: {"rent"}, amount: {12}, who: {"ann"}, day: {3}, category: {"Food"},
     date: {Sunday0310, Tuesday35, February30, <<>>}]

FridayBody ==
    Obj({"desc", "amount", "who", "day"},
        [desc |-> "rent", amount |-> 12, who |-> "ann", day |-> 5])

CreateBodies ==
    LET full == {o \in Objects(CreateValues, ExpenseFields) :
                    {"desc", "amount", "who"} \subseteq o.keys}
        all  == CHOOSE o \in full : o.keys = ExpenseFields
    IN  full \cup {WithNull(all, "who"), FridayBody}
             \cup {Obj(o.keys \ {"desc"}, o.val) : o \in {all}}

\* SpecPatch: one body for POST, and patches over every member.
PatchCreate ==
    Obj(ExpenseFields,
        [desc |-> "rent", amount |-> 12, who |-> "ann", day |-> 3,
         category |-> "Food", date |-> Sunday0310])

PatchValues ==
    [desc |-> "food", amount |-> 12, who |-> "ann", category |-> "Food",
     day |-> 3, date |-> Tuesday35, note |-> "x"]

Patches ==
    {Obj(K, PatchValues) :
        K \in {{}, {"note"}, {"day", "date"}, ExpenseFields}
              \cup {{k} : k \in ExpenseFields}}
    \cup {Obj(K, [PatchValues EXCEPT !.date = February30]) :
             K \in {{"date"}, {"desc", "date"}}}

EmptySettings == {Obj(K, PatchValues) : K \in {{}, {"note"}}}

\* SpecReject: creates and patches that are refused, next to ones that are
\* not: a member missing or null, an impossible date beside valid members,
\* no recognized member; and one settings call.
RejectCreates ==
    {PatchCreate,
     Obj(ExpenseFields \ {"desc"}, PatchCreate.val),
     Obj(ExpenseFields \ {"day"}, PatchCreate.val),
     WithNull(PatchCreate, "who"),
     Obj(ExpenseFields, [PatchCreate.val EXCEPT !.date = February30])}

RejectPatches ==
    {Obj(K, PatchValues) : K \in {{}, {"note"}, {"desc"}, {"who", "day"}}}
    \cup {Obj(K, [PatchValues EXCEPT !.date = February30]) :
             K \in {{"date"}, {"desc", "date"}, ExpenseFields}}
    \cup {WithNull(Obj({"desc"}, PatchValues), k) : k \in {"amount", "who"}}

RejectSettings == Obj({"current_savings"}, [current_savings |-> 500])

\* SpecConcurrent: at most MaxCallers settings calls run side by side, one
\* from each caller; their bodies name different members, the same member
\* with different numbers, two members, and a null.
MaxCallers == 2

Callers == 1..MaxCallers

ConcurrentBodies ==
    {Obj({"daily_max"}, [daily_max |-> 60]),
     Obj({"current_savings"}, [current_savings |-> 500]),
     Obj({"current_savings"}, [current_savings |-> 750]),
     Obj({"house_goal", "current_savings"},
         [house_goal |-> 200000, current_savings |-> 750]),
     WithNull(NoData, "house_goal")}

\* SpecSettings: the bodies of POST /api/settings.
SettingsBodies ==
    LET some == Objects([daily_max: {60}, house_goal: {200000},
                         current_savings: {500, 750}, note: {"x"}],
                        SettingsFields \cup {"note"})
    IN  some \cup {WithNull(o, "house_goal") : o \in {NoData}}

\* SpecQuery: bodies with a date in either of two weeks or with none, and
\* the query strings of the two listings.
Wednesday0306 == <<"2", "0", "2", "4", "-", "0", "3", "-", "0", "6">>

QueryBodies ==
    {Obj(K, [desc |-> "rent", amount |-> 12, who |-> "ann", day |-> 3,
             category |-> "Food", date |-> d]) :
        K \in {ExpenseFields, ExpenseFields \ {"date"}},
        d \in {Sunday0310, Tuesday35}}

QueryArgs ==
    Objects([start_date: {Tuesday35, Wednesday0306, February30},
             end_date: {Sunday0310, February30}],
            {"start_date", "end_date"})

\* SpecWeek: the query strings of GET /api/week-info, one for each of the
\* WindowDays days from 2023-12-01 on (a year's end and a leap day).
WindowDays == 120

WindowStart == ToOrdinal(2023, 12, 1)

WeekInfoArgs ==
    {Obj({"date"}, [date |-> strftime(PlusDays(WindowStart, k))]) :
        k \in 0..(WindowDays - 1)}
    \cup {Obj(K, [date |-> February30]) : K \in {{}, {"date"}}}

-----------------------------------------------------------------------------
(* The database                                                            *)
(* expenses : rowid -> row of the expenses table                           *)
(* lastrowid: the AUTOINCREMENT counter of expenses (sqlite_sequence)      *)
(* settings : the rows of the settings table, in rowid order               *)
(* today    : datetime.now().date()                                        *)
(* req, resp: the request being answered and its response                  *)
(* calls    : the POST /api/settings calls that run side by side, each on  *)
(*            its own connection: what it sent, the row it read, its answer *)

DefaultSettings ==
    [daily_max |-> 50, house_goal |-> 100000, current_savings |-> 0]

\* dict(row) of "SELECT id, desc, amount, who, day, category, date"
Row(id) ==
    [id |-> id, desc |-> expenses[id].desc, amount |-> expenses[id].amount,
     who |-> expenses[id].who, day |-> expenses[id].day,
     category |-> expenses[id].category, date |-> expenses[id].date]

\* A request, with the day the handler reads its clock (start_time).
Request(op, id, data) == [op |-> op, id |-> id, data |-> data, at |-> today]

Response(status, body) == [status |-> status, body |-> body]

Error(status, message) == Response(status, [error |-> message])

\* The settings table after init_db's "insert initial settings if they
\* don't exist".
init_db_settings(rows) ==
    IF Len(rows) = 0 THEN <<DefaultSettings>> ELSE rows

\* The first start, on an empty database file.
Init ==
    /\ expenses = <<>>
    /\ lastrowid = 0
    /\ settings = init_db_settings(<<>>)
    /\ today = FirstDay
    /\ req = Request("init_db", 0, NoData)
    /\ resp = Response(0, [message |-> "started"])
    /\ calls = <<>>

\* A restart of the process runs init_db again, on the existing file: the
\* tables and the date column exist, the settings row is inserted if missing.
init_db ==
    /\ settings' = init_db_settings(settings)
    /\ req' = Request("init_db", 0, NoData)
    /\ UNCHANGED calls
    /\ resp' = Response(0, [message |-> "started"])
    /\ UNCHANGED <<expenses, lastrowid, today>>

\* The clock passes midnight.
Tick ==
    /\ today + 1 \in Today
    /\ today' = today + 1
    /\ UNCHANGED <<expenses, lastrowid, settings, req, resp, calls>>

-----------------------------------------------------------------------------
(* POST /api/expenses                                                      *)

\* The same list without day.
required_fields_without_day == {"desc", "amount", "who"}

required_fields == {"desc", "amount", "who", "day"}

missing_fields(data) ==
    {field \in required_fields : ~Has(data, field) \/ IsNull(data, field)}

\* data.get('category', 'Pending')
category_or_default(data) ==
    IF ~Has(data, "category") THEN "Pending"
    ELSE IF IsNull(data, "category") THEN None
    ELSE data.val["category"]

\* The rowid without AUTOINCREMENT: one more than the largest in the table.
max_rowid_plus_one ==
    IF DOMAIN expenses = {} THEN 1
    ELSE (CHOOSE i \in DOMAIN expenses : \A j \in DOMAIN expenses : j <= i) + 1

\* The rowid an INSERT gets: AUTOINCREMENT never hands out a rowid again.
new_rowid == lastrowid + 1

\* INSERT INTO expenses ...; commit; SELECT the new row; 201
insert_expense(data, day_number, expense_date) ==
    LET new_expense_id == new_rowid
        row == [desc     |-> data.val["desc"],
                amount   |-> float(data.val["amount"]),
                who      |-> data.val["who"],
                day      |-> day_number,
                category |-> category_or_default(data),
                date     |-> expense_date]
    IN  /\ lastrowid < MaxId
        /\ expenses' = [i \in DOMAIN expenses \cup {new_expense_id} |->
                           IF i = new_expense_id THEN row ELSE expenses[i]]
        /\ lastrowid' = new_expense_id
        /\ resp' = Response(201, [id |-> new_expense_id] @@ row)
        /\ UNCHANGED <<settings, today>>

add_expense(data) ==
    /\ req' = Request("POST /api/expenses", 0, data)
    /\ UNCHANGED calls
    /\ IF missing_fields(data) # {}
       THEN /\ resp' = Error(400, "Missing required fields")
            /\ UNCHANGED <<expenses, lastrowid, settings, today>>
       ELSE IF ~Has(data, "day") \/ IsNull(data, "day")
       THEN \* int(data.get('day')) is int(None): TypeError
            /\ resp' = Error(500, "Internal Server Error")
            /\ UNCHANGED <<expenses, lastrowid, settings, today>>
       ELSE IF Truthy(data, "date")
       THEN LET parsed_date == parse_date(data.val["date"])
            IN  IF parsed_date = NoDate
                THEN /\ resp' = Error(400, "Invalid date format")
                     /\ UNCHANGED <<expenses, lastrowid, settings, today>>
                ELSE insert_expense(data, get_day_from_date(parsed_date),
                                    format_date(parsed_date))
       ELSE LET day_number == int(data.val["day"])
            IN  insert_expense(data, day_number,
                               format_date(get_date_from_day(day_number, NoDate)))

-----------------------------------------------------------------------------
(* PATCH /api/expenses/<id>                                                *)

\* The same with day taken from date whenever date is given, as in
\* add_expense.
set_clause_date_wins(data) ==
    LET plain  == {k \in {"category", "who", "desc"} : Has(data, k)}
        amount == IF Has(data, "amount") THEN {"amount"} ELSE {}
        day    == IF Has(data, "day") \/ Has(data, "date") THEN {"day"} ELSE {}
        date   == IF Has(data, "date") THEN {"date"} ELSE {}
    IN  [k \in plain \cup amount \cup day \cup date |->
            CASE k \in {"category", "who", "desc"} ->
                     IF IsNull(data, k) THEN None ELSE data.val[k]
              [] k = "amount" -> float(data.val["amount"])
              [] k = "day" ->
                     IF Has(data, "date")
                     THEN get_day_from_date(parse_date(data.val["date"]))
                     ELSE int(data.val["day"])
              [] k = "date" -> format_date(parse_date(data.val["date"]))]

\* The columns of the SET clause and their parameters (`updates`, `params`).
set_clause(data) ==
    LET plain  == {k \in {"category", "who", "desc"} : Has(data, k)}
        amount == IF Has(data, "amount") THEN {"amount"} ELSE {}
        day    == IF Has(data, "day") \/ Has(data, "date") THEN {"day"} ELSE {}
        date   == IF Has(data, "date") THEN {"date"} ELSE {}
    IN  [k \in plain \cup amount \cup day \cup date |->
            CASE k \in {"category", "who", "desc"} ->
                     IF IsNull(data, k) THEN None ELSE data.val[k]
              [] k = "amount" -> float(data.val["amount"])
              [] k = "day" ->
                     IF Has(data, "day") THEN int(data.val["day"])
                     ELSE get_day_from_date(parse_date(data.val["date"]))
              [] k = "date" -> format_date(parse_date(data.val["date"]))]

\* One row under "SET column = ?, ..."
update_row(row, set) ==
    [k \in DOMAIN row |-> IF k \in DOMAIN set THEN set[k] ELSE row[k]]

\* The same UPDATE without its WHERE clause.
update_every_row(expense_id, set) ==
    [i \in DOMAIN expenses |-> update_row(expenses[i], set)]

\* The same UPDATE falling back on every row when no row has the id.
update_where_id_or_all(expense_id, set) ==
    [i \in DOMAIN expenses |->
        IF i = expense_id \/ expense_id \notin DOMAIN expenses
        THEN update_row(expenses[i], set) ELSE expenses[i]]

\* UPDATE expenses SET ... WHERE id = ?
update_where_id(expense_id, set) ==
    [i \in DOMAIN expenses |->
        IF i = expense_id THEN update_row(expenses[i], set) ELSE expenses[i]]

update_expense(expense_id, data) ==
    /\ req' = Request("PATCH /api/expenses", expense_id, data)
    /\ UNCHANGED calls
    /\ UNCHANGED <<lastrowid, settings, today>>
    /\ IF \E k \in {"amount", "day"} : Has(data, k) /\ IsNull(data, k)
       THEN \* float(None), int(None): TypeError, nothing was executed
            /\ resp' = Error(500, "Internal Server Error")
            /\ UNCHANGED expenses
       ELSE IF Has(data, "date") /\
               (IsNull(data, "date") \/ parse_date(data.val["date"]) = NoDate)
       THEN /\ resp' = Error(400, "Invalid date format")
            /\ UNCHANGED expenses
       ELSE IF data.keys \cap ExpenseFields = {}
       THEN /\ resp' = Error(400, "No fields provided for update")
            /\ UNCHANGED expenses
       ELSE IF /\ expense_id \in DOMAIN expenses
               /\ \E k \in {"who", "desc"} : Has(data, k) /\ IsNull(data, k)
       THEN \* NOT NULL constraint on the matched row: IntegrityError, the
            \* statement is undone
            /\ resp' = Error(500, "Internal Server Error")
            /\ UNCHANGED expenses
       ELSE \* execute the UPDATE, commit, SELECT the row by its id
            /\ expenses' = update_where_id(expense_id, set_clause(data))
            /\ resp' = IF expense_id \in DOMAIN expenses'
                       THEN Response(200, [id |-> expense_id]
                                              @@ expenses'[expense_id])
                       ELSE Error(404, "Expense not found")

-----------------------------------------------------------------------------
(* DELETE /api/expenses/<id>                                               *)

delete_expense(expense_id) ==
    /\ req' = Request("DELETE /api/expenses", expense_id, NoData)
    /\ UNCHANGED calls
    /\ expenses' = [i \in DOMAIN expenses \ {expense_id} |-> expenses[i]]
    /\ resp' = Response(200, [message |-> "Expense deleted successfully"])
    /\ UNCHANGED <<lastrowid, settings, today>>

-----------------------------------------------------------------------------
(* POST /api/settings                                                      *)

\* The same starting from the defaults instead of the stored row.
merge_into_defaults(row, data) ==
    [key \in SettingsFields |->
        IF Has(data, key) THEN float(data.val[key]) ELSE DefaultSettings[key]]

\* dict(settings) with the members of data written over it
merge_settings(row, data) ==
    [key \in SettingsFields |->
        IF Has(data, key) THEN float(data.val[key]) ELSE row[key]]

update_settings(data) ==
    /\ req' = Request("POST /api/settings", 0, data)
    /\ UNCHANGED calls
    /\ UNCHANGED <<expenses, lastrowid, today>>
    /\ IF Len(settings) = 0
       THEN /\ resp' = Error(404, "Settings not found")
            /\ UNCHANGED settings
       ELSE IF \E key \in SettingsFields : Has(data, key) /\ IsNull(data, key)
       THEN /\ resp' = Error(500, "Internal Server Error")
            /\ UNCHANGED settings
       ELSE LET updated_settings == merge_settings(settings[1], data)
            IN  \* UPDATE settings SET ... has no WHERE: every row is written
                /\ settings' = [i \in 1..Len(settings) |-> updated_settings]
                /\ resp' = Response(200, updated_settings)

\* The same handler for calls that run side by side, each in its own thread
\* with its own connection (get_db). It has two statements: the SELECT runs
\* in autocommit and holds no lock once its one row is fetched; the UPDATE
\* and its commit are one write transaction. Other calls' statements can run
\* between the two.

\* calls with caller c's call in it
call_of(c, data, row, status) ==
    [d \in DOMAIN calls \cup {c} |->
        IF d = c THEN [data |-> data, settings |-> row, status |-> status]
        ELSE calls[d]]

\* "Fetch current settings to update": the SELECT, and the 404 without a row
update_settings_select(c, data) ==
    /\ c \notin DOMAIN calls
    /\ UNCHANGED <<expenses, lastrowid, settings, today>>
    /\ IF Len(settings) = 0
       THEN /\ calls' = call_of(c, data, <<>>, 404)
            /\ req' = Request("POST /api/settings", 0, data)
            /\ resp' = Error(404, "Settings not found")
       ELSE \* settings = fetchone(): status 0, not answered yet
            /\ calls' = call_of(c, data, settings[1], 0)
            /\ UNCHANGED <<req, resp>>

\* The merge into the row that was read, the UPDATE, the commit, the answer
update_settings_commit(c) ==
    /\ c \in DOMAIN calls
    /\ calls[c].status = 0
    /\ UNCHANGED <<expenses, lastrowid, today>>
    /\ LET data == calls[c].data
       IN  /\ req' = Request("POST /api/settings", 0, data)
           /\ IF \E key \in SettingsFields : Has(data, key) /\ IsNull(data, key)
              THEN \* float(None): TypeError, nothing was executed
                   /\ resp' = Error(500, "Internal Server Error")
                   /\ calls' = call_of(c, data, calls[c].settings, 500)
                   /\ UNCHANGED settings
              ELSE LET updated_settings ==
                           merge_settings(calls[c].settings, data)
                   IN  /\ settings' =
                              [i \in 1..Len(settings) |-> updated_settings]
                       /\ resp' = Response(200, updated_settings)
                       /\ calls' = call_of(c, data, calls[c].settings, 200)

-----------------------------------------------------------------------------
(* GET /api/data and GET /api/expenses/by-week                             *)

\* "Determine week range" of both handlers: [error, start_date, end_date]
week_filter(args) ==
    IF Truthy(args, "start_date")
    THEN LET start_date == parse_date(args.val["start_date"])
         IN  IF start_date = NoDate
             THEN [error |-> "Invalid start_date format",
                   start_date |-> NoDate, end_date |-> NoDate]
             ELSE IF Truthy(args, "end_date")
             THEN LET end_date == parse_date(args.val["end_date"])
                  IN  IF end_date = NoDate
                      THEN [error |-> "Invalid end_date format",
                            start_date |-> NoDate, end_date |-> NoDate]
                      ELSE [error |-> "", start_date |-> start_date,
                            end_date |-> end_date]
             ELSE [error |-> "", start_date |-> start_date,
                   end_date |-> PlusDays(start_date, 6)]
    ELSE [error |-> "", start_date |-> get_week_range(NoDate)[1],
          end_date |-> get_week_range(NoDate)[2]]

\* WHERE date >= ? AND date <= ?  (a comparison of TEXT values)
where_date_between(lo, hi) ==
    {i \in DOMAIN expenses :
        TextLe(lo, expenses[i].date) /\ TextLe(expenses[i].date, hi)}

\* A SELECT without ORDER BY walks the table's b-tree: rowid order.
RECURSIVE table_scan(_)
table_scan(ids) ==
    IF ids = {} THEN <<>>
    ELSE LET first == CHOOSE i \in ids : \A j \in ids : i <= j
         IN  <<Row(first)>> \o table_scan(ids \ {first})

\* ORDER BY date ASC, id ASC
date_id_le(i, j) ==
    IF expenses[i].date = expenses[j].date THEN i <= j
    ELSE TextLe(expenses[i].date, expenses[j].date)

RECURSIVE order_by_date_id(_)
order_by_date_id(ids) ==
    IF ids = {} THEN <<>>
    ELSE LET first == CHOOSE i \in ids : \A j \in ids : date_id_le(i, j)
         IN  <<Row(first)>> \o order_by_date_id(ids \ {first})

week_range_body(f) ==
    [start_date |-> format_date(f.start_date),
     end_date   |-> format_date(f.end_date)]

get_data(args) ==
    LET f == week_filter(args)
    IN  /\ req' = Request("GET /api/data", 0, args)
        /\ resp' =
             IF f.error # "" THEN Error(400, f.error)
             ELSE Response(200,
                    [settings   |-> IF Len(settings) = 0 THEN <<>>
                                    ELSE settings[1],
                     expenses   |-> table_scan(where_date_between(
                                        format_date(f.start_date),
                                        format_date(f.end_date))),
                     week_range |-> week_range_body(f)])
        /\ UNCHANGED <<expenses, lastrowid, settings, today, calls>>

RECURSIVE total(_)
total(rows) == IF rows = <<>> THEN 0 ELSE Head(rows).amount + total(Tail(rows))

\* expenses_by_day: day -> the rows of that day, in the order of the listing
by_day(rows) ==
    [d \in {rows[i].day : i \in 1..Len(rows)} |->
        SelectSeq(rows, LAMBDA r : r.day = d)]

get_expenses_by_week(args) ==
    LET f    == week_filter(args)
        rows == order_by_date_id(where_date_between(
                    format_date(f.start_date), format_date(f.end_date)))
    IN  /\ req' = Request("GET /api/expenses/by-week", 0, args)
        /\ resp' =
             IF f.error # "" THEN Error(400, f.error)
             ELSE Response(200,
                    [expenses   |-> rows,
                     week_range |-> week_range_body(f),
                     summary    |-> [total_expenses  |-> Len(rows),
                                     total_amount    |-> total(rows),
                                     expenses_by_day |-> by_day(rows)]])
        /\ UNCHANGED <<expenses, lastrowid, settings, today, calls>>

-----------------------------------------------------------------------------
(* GET /api/week-info                                                      *)

day_names ==
    <<"Sunday", "Monday", "Tuesday", "Wednesday", "Thursday", "Friday",
      "Saturday">>

get_week_info(args) ==
    LET date_obj == IF Truthy(args, "date") THEN parse_date(args.val["date"])
                    ELSE NoDate
        range    == get_week_range(date_obj)
    IN  /\ req' = Request("GET /api/week-info", 0, args)
        /\ resp' =
             IF Truthy(args, "date") /\ date_obj = NoDate
             THEN Error(400, "Invalid date format")
             ELSE Response(200,
                    [week_range   |-> [start_date |-> format_date(range[1]),
                                       end_date   |-> format_date(range[2])],
                     days         |-> [i \in 1..7 |->
                                         [day_number |-> i - 1,
                                          day_name   |-> day_names[i],
                                          date       |-> format_date(
                                               PlusDays(range[1], i - 1))]],
                     current_date |-> format_date(today)])
        /\ UNCHANGED <<expenses, lastrowid, settings, today, calls>>

-----------------------------------------------------------------------------
(* Specifications                                                          *)

\* The ledger's inserts and deletes, with the clock running.
Next ==
    \/ \E data \in CreateBodies : add_expense(data)
    \/ \E expense_id \in Ids : delete_expense(expense_id)
    \/ Tick

Spec == Init /\ [][Next]_vars

\* Patches of the ledger's rows, and settings calls that name no field.
NextPatch ==
    \/ add_expense(PatchCreate)
    \/ \E expense_id \in Ids, data \in Patches :
           update_expense(expense_id, data)
    \/ \E expense_id \in Ids : delete_expense(expense_id)
    \/ \E data \in EmptySettings : update_settings(data)

SpecPatch == Init /\ [][NextPatch]_vars

\* Requests that are refused, among ones that change the ledger and the
\* settings.
NextReject ==
    \/ \E data \in RejectCreates : add_expense(data)
    \/ \E expense_id \in Ids, data \in RejectPatches :
           update_expense(expense_id, data)
    \/ \E expense_id \in Ids : delete_expense(expense_id)
    \/ update_settings(RejectSettings)

SpecReject == Init /\ [][NextReject]_vars

\* The settings calls, one at a time, and restarts of the process.
NextSettings ==
    \/ \E data \in SettingsBodies : update_settings(data)
    \/ init_db

SpecSettings == Init /\ [][NextSettings]_vars

\* Settings calls side by side: any call's SELECT or UPDATE is the next
\* statement the database runs.
NextConcurrent ==
    \/ \E c \in Callers, data \in ConcurrentBodies :
           update_settings_select(c, data)
    \/ \E c \in Callers : update_settings_commit(c)

SpecConcurrent == Init /\ [][NextConcurrent]_vars

\* The two week-filtered listings over a ledger that grows and shrinks.
NextQuery ==
    \/ \E data \in QueryBodies : add_expense(data)
    \/ \E expense_id \in Ids : delete_expense(expense_id)
    \/ \E args \in QueryArgs : get_data(args)
    \/ \E args \in QueryArgs : get_expenses_by_week(args)

SpecQuery == Init /\ [][NextQuery]_vars

\* The week of a date, asked for every date of the window.
NextWeek ==
    \/ \E args \in WeekInfoArgs : get_week_info(args)
    \/ Tick

SpecWeek == Init /\ [][NextWeek]_vars

-----------------------------------------------------------------------------
(* The words of the specification                                          *)

\* The calendar date a text denotes, NoDate when it denotes none.
DateOf(text) == IF text = <<>> THEN NoDate ELSE strptime(text)

\* The ISO text (YYYY-MM-DD) of a date.
IsoText(d) == strftime(d)

\* Sunday = 0 ... Saturday = 6; 2023-01-01 was a Sunday.
DayOfWeek(d) == (d - ToOrdinal(2023, 1, 1)) % 7

\* The Sunday that begins the week of d.
SundayOfWeek(d) == CHOOSE s \in (d - 6)..d : DayOfWeek(s) = 0

\* Every member of K is in the body, and not null.
Present(data, K) == \A k \in K : Has(data, k) /\ ~IsNull(data, k)

NoNulls(data) == \A k \in data.keys : ~IsNull(data, k)

CreateReq == req.op = "POST /api/expenses"

PatchReq == req.op = "PATCH /api/expenses"

SettingsReq == req.op = "POST /api/settings"

\* This step answers a request (the clock's step answers none).
Answers(op) == req'.op = op /\ today' = today

-----------------------------------------------------------------------------
(* The claims                                                              *)

\* C1: every stored expense has day = dayOfWeek(date), Sunday = 0, after any
\* creates, updates and deletes; also after an update that supplies only day.
C1_DayMatchesDate ==
    \A i \in DOMAIN expenses :
        /\ expenses[i].day \in 0..6
        /\ expenses[i].day = DayOfWeek(DateOf(expenses[i].date))

\* C2: a create with desc, amount, who and day: with a valid date the record
\* has that date and day = dayOfWeek(date), whatever day the caller gave;
\* without date it keeps the caller's day and its date is the Sunday of the
\* week of today plus day days; category is "Pending" when not supplied.
C2_CreateResolvesDateAndDay ==
    (CreateReq /\ Present(req.data, {"desc", "amount", "who", "day"})) =>
        LET data == req.data
            row  == expenses[resp.body.id]
        IN  /\ (Present(data, {"date"}) /\ DateOf(data.val["date"]) # NoDate) =>
                  /\ resp.status = 201
                  /\ row.date = IsoText(DateOf(data.val["date"]))
                  /\ row.day = DayOfWeek(DateOf(data.val["date"]))
            /\ ~Has(data, "date") =>
                  /\ resp.status = 201
                  /\ row.day = data.val["day"]
                  /\ row.date =
                         IsoText(SundayOfWeek(req.at) + data.val["day"])
            /\ (~Has(data, "category") /\ resp.status = 201) =>
                  row.category = "Pending"

\* A create with a valid date whose day (3) the record did not keep.
C2_Witness ==
    /\ CreateReq /\ resp.status = 201
    /\ Present(req.data, {"day", "date"})
    /\ expenses[resp.body.id].day # req.data.val["day"]
    /\ expenses[resp.body.id].date # req.data.val["date"]

\* A create with desc, amount, who and a valid date, and no day.
CreateWithoutDay(data) ==
    /\ Present(data, {"desc", "amount", "who", "date"})
    /\ ~Has(data, "day")
    /\ DateOf(data.val["date"]) # NoDate

\* C3 as written: such a create succeeds and stores day = dayOfWeek(date).
C3_CreateWithoutDaySucceeds ==
    (CreateReq /\ CreateWithoutDay(req.data)) =>
        /\ resp.status = 201
        /\ expenses[resp.body.id].day = DayOfWeek(DateOf(req.data.val["date"]))

\* C3 amended: such a create is refused with 400, day being a required
\* member, and stores nothing.
C3_CreateWithoutDayRejected ==
    [][(Answers("POST /api/expenses") /\ CreateWithoutDay(req'.data)) =>
          /\ resp' = Error(400, "Missing required fields")
          /\ UNCHANGED <<expenses, lastrowid, settings>>]_vars

C3_Witness ==
    /\ CreateReq /\ CreateWithoutDay(req.data)
    /\ req.data.val["date"] = Sunday0310
    /\ resp.status = 400

\* A patch that names a valid date, and has no null member.
PatchWithDate(data) ==
    /\ NoNulls(data)
    /\ Has(data, "date")
    /\ DateOf(data.val["date"]) # NoDate

\* C4: an update of an existing expense with a valid date: without day the
\* record gets the new date and day = dayOfWeek(date); with date and day it
\* gets the new date and the caller's day, also when the two disagree.
C4_PatchDateKeepsCallersDay ==
    (PatchReq /\ req.id \in DOMAIN expenses /\ PatchWithDate(req.data)) =>
        LET data == req.data
            row  == expenses[req.id]
        IN  /\ resp.status = 200
            /\ row.date = IsoText(DateOf(data.val["date"]))
            /\ row.day = IF Has(data, "day") THEN data.val["day"]
                         ELSE DayOfWeek(DateOf(data.val["date"]))

\* A patch of date and day left a record whose day is not its date's.
C4_Witness ==
    /\ PatchReq /\ resp.status = 200
    /\ req.data.keys = {"day", "date"}
    /\ expenses[req.id].day = req.data.val["day"]
    /\ expenses[req.id].day # DayOfWeek(DateOf(expenses[req.id].date))

\* The members of the record that a patch leaves alone.
NotNamed(data) ==
    {k \in ExpenseFields :
        ~Has(data, k) /\ ~(k = "day" /\ Has(data, "date"))}

\* C5: a successful update(id, patch) changes nothing but the members of
\* expense id that the patch names (and day, when date is named): its other
\* members, the other expenses and the settings stay as they were.
C5_PatchFrame ==
    [][(Answers("PATCH /api/expenses") /\ resp'.status = 200) =>
          /\ req'.id \in DOMAIN expenses
          /\ DOMAIN expenses' = DOMAIN expenses
          /\ \A i \in DOMAIN expenses \ {req'.id} : expenses'[i] = expenses[i]
          /\ \A k \in NotNamed(req'.data) :
                 expenses'[req'.id][k] = expenses[req'.id][k]
          /\ UNCHANGED <<lastrowid, settings>>]_vars

\* A patch of desc alone changed it, next to an expense that kept its own.
C5_Witness ==
    /\ PatchReq /\ resp.status = 200
    /\ req.data.keys = {"desc"}
    /\ expenses[req.id].desc = "food"
    /\ expenses[req.id].who = "ann"
    /\ \E i \in DOMAIN expenses \ {req.id} : expenses[i].desc = "rent"

\* C6: after initialization and any settings calls, run one at a time, there
\* is exactly one settings record; each call sets the members its body has to
\* the numbers given and keeps the others; it returns the stored record.
C6_SettingsMerge ==
    /\ [](Len(settings) = 1)
    /\ [][(/\ Answers("POST /api/settings")
           /\ NoNulls(req'.data)) =>
             /\ resp'.status = 200
             /\ \A key \in SettingsFields :
                    settings'[1][key] =
                        IF Has(req'.data, key) THEN req'.data.val[key]
                        ELSE settings[1][key]
             /\ resp'.body = settings'[1]]_vars

\* A call with current_savings alone, after which an earlier daily_max stands.
C6_Witness ==
    /\ SettingsReq /\ resp.status = 200
    /\ req.data.keys = {"current_savings"}
    /\ settings[1].current_savings = 500
    /\ settings[1].daily_max = 60
    /\ settings[1].house_goal = 100000

\* C7: a PATCH /api/expenses/<id> and a POST /api/settings whose body has no
\* recognized member are both refused with 400, and change nothing stored.
C7_NoOpUpdateRejected ==
    [][(\/ /\ Answers("PATCH /api/expenses")
           /\ req'.data.keys \cap ExpenseFields = {}
        \/ /\ Answers("POST /api/settings")
           /\ req'.data.keys \cap SettingsFields = {}) =>
          /\ resp'.status = 400
          /\ UNCHANGED <<expenses, lastrowid, settings>>]_vars

\* A patch with a recognized member, no null and no unparseable date.
ValidPatch(data) ==
    /\ data.keys \cap ExpenseFields # {}
    /\ NoNulls(data)
    /\ Has(data, "date") => DateOf(data.val["date"]) # NoDate

ListingReq ==
    req.op \in {"GET /api/data", "GET /api/expenses/by-week"}

\* C9: a week-filtered listing (GET /api/data, GET /api/expenses/by-week)
\* returns exactly the stored expenses whose date is in the resolved range
\* [start, end], ordered by date and then by id.
C9_ListingFilteredAndOrdered ==
    (ListingReq /\ resp.status = 200) =>
        LET rows     == resp.body.expenses
            start    == DateOf(resp.body.week_range.start_date)
            end      == DateOf(resp.body.week_range.end_date)
            in_range == {i \in DOMAIN expenses :
                            /\ start <= DateOf(expenses[i].date)
                            /\ DateOf(expenses[i].date) <= end}
        IN  /\ {rows[n].id : n \in 1..Len(rows)} = in_range
            /\ Len(rows) = Cardinality(in_range)
            /\ \A n \in 1..Len(rows) : rows[n] = Row(rows[n].id)
            /\ \A m, n \in 1..Len(rows) :
                   m < n =>
                     \/ DateOf(rows[m].date) < DateOf(rows[n].date)
                     \/ /\ DateOf(rows[m].date) = DateOf(rows[n].date)
                        /\ rows[m].id < rows[n].id

WeekInfoReq == req.op = "GET /api/week-info"

\* C10: for every date D, get_week_range(D) is (S, E) with S a Sunday,
\* E = S + 6 days and S <= D <= E.
C10_WeekRange ==
    (WeekInfoReq /\ resp.status = 200) =>
        LET D == IF Truthy(req.data, "date") THEN DateOf(req.data.val["date"])
                 ELSE req.at
            S == DateOf(resp.body.week_range.start_date)
            E == DateOf(resp.body.week_range.end_date)
        IN  /\ D # NoDate /\ S # NoDate /\ E # NoDate
            /\ DayOfWeek(S) = 0
            /\ E = S + 6
            /\ S <= D /\ D <= E

\* The week of the leap day, a Thursday: it starts and ends in other months.
C10_Witness ==
    /\ WeekInfoReq /\ resp.status = 200
    /\ Truthy(req.data, "date")
    /\ DateOf(req.data.val["date"]) = ToOrdinal(2024, 2, 29)
    /\ DateOf(resp.body.week_range.start_date) = ToOrdinal(2024, 2, 25)
    /\ DateOf(resp.body.week_range.end_date) = ToOrdinal(2024, 3, 2)

\* C11: a create or an update that is answered with an error (a required
\* member missing, an unparseable date, no recognized member, an unknown id,
\* or any other refusal) leaves every expense, the id counter and the
\* settings as they were, also when the refused body had valid members.
C11_ErrorsChangeNothing ==
    [][(/\ Answers("POST /api/expenses") \/ Answers("PATCH /api/expenses")
        /\ resp'.status >= 400) =>
          UNCHANGED <<expenses, lastrowid, settings>>]_vars

\* A patch of desc to "food" with an impossible date was refused for an
\* expense in the ledger: it is still named "rent", beside a settings record
\* that an earlier call changed.
C11_Witness ==
    /\ PatchReq /\ resp.status = 400
    /\ req.data.keys = {"desc", "date"}
    /\ DateOf(req.data.val["date"]) = NoDate
    /\ req.id \in DOMAIN expenses
    /\ req.data.val["desc"] = "food"
    /\ expenses[req.id].desc = "rent"
    /\ settings[1].current_savings = 500

\* A settings record with the members of a body written over it.
Merged(row, data) ==
    [key \in SettingsFields |->
        IF Has(data, key) THEN data.val[key] ELSE row[key]]

\* The records that running the calls of S one after another, in any order,
\* can leave, starting from row.
RECURSIVE SerialResults(_, _)
SerialResults(row, S) ==
    IF S = {} THEN {row}
    ELSE UNION {SerialResults(Merged(row, calls[c].data), S \ {c}) : c \in S}

\* C12: when settings calls run side by side and all have been answered 200,
\* the settings record is what running them one after another in some order
\* leaves: calls that name different members both take effect, and no member
\* a call did not name goes back to the value that call had read.
C12_ConcurrentSettingsSerializable ==
    (/\ DOMAIN calls # {}
     /\ \A c \in DOMAIN calls : calls[c].status = 200) =>
        settings[1] \in SerialResults(DefaultSettings, DOMAIN calls)

====
